---- MODULE Spec2Model ----
(***************************************************************************)
(* Model of the BusTub buffer pool manager and its LRU-K replacer          *)
(* (src/buffer/buffer_pool_manager.cpp, src/buffer/lru_k_replacer.cpp).    *)
(*                                                                         *)
(* Every public method runs under a std::lock_guard for its whole body, so *)
(* each call is one atomic action.  Sequences model std::list with the     *)
(* front of the list at index 1.                                           *)
(***************************************************************************)
EXTENDS Integers, Sequences, FiniteSets, TLC

VARIABLES
  pages,         \* pages_[]: frame -> [page_id, pin_count, is_dirty, data]
  page_table,    \* page_table_: page id -> frame id (a function on its key set)
  free_list,     \* free_list_: std::list<frame_id_t>
  next_page_id,  \* next_page_id_
  replacer,      \* replacer_: the LRUKReplacer object
  disk,          \* what DiskManager holds for each page id
  last,          \* the last call: its name, arguments and return value
  io,            \* what the last call did, in program order
  arrival,       \* history variable: the frames with fewer than k accesses since
                 \* their last reset, in the order of their first access
  accesses,      \* history variable: the RecordAccess calls in the order they were
                 \* made, the last k of each frame since its last reset
  heap,          \* the TrieNode objects allocated so far: node id -> node
  roots,         \* the Trie objects obtained so far: the root_ of each
  latch,         \* latch_ of the replacer: the thread that holds it, or NoThread
  pc,            \* where each thread is in the replacer method it called
  latest,        \* history variable: the bytes last written into each page by a client
  owed           \* the frames a client has written into and not yet unpinned as dirty

vars == <<pages, page_table, free_list, next_page_id, replacer, disk, last, io, arrival,
          accesses, heap, roots, latch, pc, latest, owed>>

\* the variables of the trie, of the replacer's threads, and of the pool's clients
trie_vars == <<heap, roots>>

thread_vars == <<latch, pc>>

client_vars == <<latest, owed>>

(***************************************************************************)
(* Bounds of the model.                                                    *)
(***************************************************************************)
\* pool_size of the buffer pool, num_frames of the replacer
NumFrames == 2
\* replacer_k of the buffer pool
PoolK == 2
\* k of a replacer used on its own ranges over 1..MaxK
MaxK == 3
\* page ids 0..MaxPageId can be allocated or fetched
MaxPageId == 2
\* pin_count is capped at MaxPin by the guards
MaxPin == 2
\* threads calling the replacer at the same time
NumThreads == 2
\* trie keys have at most MaxKeyLen characters
MaxKeyLen == 2
\* the values stored in a trie are 1..MaxVal, of each type
MaxVal == 2
\* the tries obtained by Put and Remove, the empty trie they start from included
MaxTries == 4
\* clients write into the pages 0..MaxWrittenPage
MaxWrittenPage == 0

INVALID_PAGE_ID == -1

NoFrame == -1

\* a null std::shared_ptr<const TrieNode>
NullNode == 0

Threads == 1 .. NumThreads

\* latch_ held by nobody
NoThread == 0

\* use_count_ is capped one above k by the guards: the code only compares it with k
MaxUse(k) == k + 1

Frames == 0 .. (NumFrames - 1)

\* is_accessible_ is resized to num_frames + 1 slots
Slots == 0 .. NumFrames

\* frame ids a caller of the replacer may pass, one past the last slot included
FrameArgs == 0 .. (NumFrames + 1)

PageIds == 0 .. MaxPageId

\* what a caller may pass for a page id: INVALID_PAGE_ID is the sentinel for "no
\* page"; FetchPage is called with page ids only
PageArgs == {INVALID_PAGE_ID} \cup PageIds

\* the content of a page: zeroed memory, or bytes written by a client
Bytes == {"zero", "hello"}

Max(S) == CHOOSE x \in S : \A y \in S : y <= x

(***************************************************************************)
(* std::list helpers.                                                      *)
(***************************************************************************)
PushFront(l, x) == <<x>> \o l

PushBack(l, x) == Append(l, x)

PopBack(l) == SubSeq(l, 1, Len(l) - 1)

Back(l) == l[Len(l)]

EraseAt(l, i) == SubSeq(l, 1, i - 1) \o SubSeq(l, i + 1, Len(l))

\* erase through the iterator the map keeps for x: the front-most node holding x
EraseValue(l, x) ==
  LET idx == {i \in 1..Len(l) : l[i] = x}
  IN  IF idx = {} THEN l ELSE EraseAt(l, CHOOSE i \in idx : \A j \in idx : i <= j)

Range(l) == {l[i] : i \in 1..Len(l)}

(***************************************************************************)
(* LRUKReplacer                                                            *)
(***************************************************************************)
LRUKReplacer(num_frames, k) ==
  [ replacer_size |-> num_frames,
    k             |-> k,
    use_count     |-> [f \in 0..num_frames |-> 0],
    is_accessible |-> [f \in 0..num_frames |-> FALSE],
    history_list  |-> <<>>,
    cache_list    |-> <<>>,
    history_map   |-> {},
    cache_map     |-> {},
    curr_size     |-> 0 ]

\* a scan that takes the last entry whether or not it is evictable
ScanBackIgnoringFlag(list, is_accessible) == Len(list)

\* the back-to-front scan of Evict: the index of the last evictable entry, or 0
ScanBack(list, is_accessible) ==
  LET idx == {i \in 1..Len(list) : is_accessible[list[i]]}
  IN  IF idx = {} THEN 0 ELSE Max(idx)

\* an Evict that scans the history list only
EvictHistoryOnly(r) ==
  LET h == ScanBack(r.history_list, r.is_accessible)
  IN  IF h # 0
      THEN LET f == r.history_list[h]
           IN  [found |-> TRUE, frame_id |-> f,
                r |-> [r EXCEPT !.curr_size = @ - 1,
                                !.is_accessible[f] = FALSE,
                                !.use_count[f] = 0,
                                !.history_map = @ \ {f},
                                !.history_list = EraseAt(@, h)]]
      ELSE [found |-> FALSE, frame_id |-> 0, r |-> r]

\* Evict: [found, frame_id, r], r the replacer after the call
Evict(r) ==
  IF r.history_map = {} /\ r.cache_map = {}
  THEN [found |-> FALSE, frame_id |-> 0, r |-> r]
  ELSE
    LET h == ScanBack(r.history_list, r.is_accessible)
        c == ScanBack(r.cache_list, r.is_accessible)
    IN  IF h # 0
        THEN LET f == r.history_list[h]
             IN  [found |-> TRUE, frame_id |-> f,
                  r |-> [r EXCEPT !.curr_size = @ - 1,
                                  !.is_accessible[f] = FALSE,
                                  !.use_count[f] = 0,
                                  !.history_map = @ \ {f},
                                  !.history_list = EraseAt(@, h)]]
        ELSE IF c # 0
        THEN LET f == r.cache_list[c]
             IN  [found |-> TRUE, frame_id |-> f,
                  r |-> [r EXCEPT !.curr_size = @ - 1,
                                  !.is_accessible[f] = FALSE,
                                  !.use_count[f] = 0,
                                  !.cache_map = @ \ {f},
                                  !.cache_list = EraseAt(@, c)]]
        ELSE [found |-> FALSE, frame_id |-> 0, r |-> r]

\* the range check of RecordAccess, SetEvictable and Remove: TRUE when it throws
OutOfRange(r, frame_id) == frame_id > r.replacer_size

\* a RecordAccess that moves a frame to the front of the history list on every
\* access below k
RecordAccessMoveToFront(r, f) ==
  LET n == r.use_count[f] + 1
      r1 == [r EXCEPT !.use_count[f] = n]
  IN  IF n = r.k
      THEN [r1 EXCEPT !.history_list = EraseValue(@, f),
                      !.history_map = @ \ {f},
                      !.cache_list = PushFront(@, f),
                      !.cache_map = @ \cup {f}]
      ELSE IF n > r.k
      THEN [r1 EXCEPT !.cache_list = PushFront(EraseValue(@, f), f),
                      !.cache_map = @ \cup {f}]
      ELSE [r1 EXCEPT !.history_list = PushFront(EraseValue(@, f), f),
                      !.history_map = @ \cup {f}]

\* RecordAccess for a frame id that passes the range check
RecordAccess(r, f) ==
  LET n == r.use_count[f] + 1
      r1 == [r EXCEPT !.use_count[f] = n]
  IN  IF n = r.k
      THEN LET r2 == IF f \in r1.history_map
                     THEN [r1 EXCEPT !.history_list = EraseValue(@, f),
                                     !.history_map = @ \ {f}]
                     ELSE r1
           IN  [r2 EXCEPT !.cache_list = PushFront(@, f),
                          !.cache_map = @ \cup {f}]
      ELSE IF n > r.k
      THEN LET r2 == IF f \in r1.cache_map
                     THEN [r1 EXCEPT !.cache_list = EraseValue(@, f)]
                     ELSE r1
           IN  [r2 EXCEPT !.cache_list = PushFront(@, f),
                          !.cache_map = @ \cup {f}]
      ELSE IF f \notin r1.history_map
           THEN [r1 EXCEPT !.history_list = PushFront(@, f),
                           !.history_map = @ \cup {f}]
           ELSE r1

\* a SetEvictable that sets the flag and leaves curr_size_ alone
SetEvictableFlagOnly(r, f, set_evictable) ==
  IF r.use_count[f] = 0 THEN r ELSE [r EXCEPT !.is_accessible[f] = set_evictable]

\* SetEvictable for a frame id that passes the range check
SetEvictable(r, f, set_evictable) ==
  IF r.use_count[f] = 0
  THEN r
  ELSE LET d1 == IF r.is_accessible[f] /\ ~set_evictable THEN -1 ELSE 0
           d2 == IF ~r.is_accessible[f] /\ set_evictable THEN 1 ELSE 0
       IN  [r EXCEPT !.curr_size = @ + d1 + d2,
                     !.is_accessible[f] = set_evictable]

\* a Remove without the "cannot remove" return for a frame that is not evictable
RemoveUnguarded(r, f) ==
  LET r1 == IF r.use_count[f] < r.k
            THEN [r EXCEPT !.history_list = EraseValue(@, f),
                           !.history_map = @ \ {f}]
            ELSE [r EXCEPT !.cache_list = EraseValue(@, f),
                           !.cache_map = @ \ {f}]
  IN  [r1 EXCEPT !.use_count[f] = 0,
                 !.is_accessible[f] = FALSE,
                 !.curr_size = @ - 1]

\* a Remove that leaves use_count_ as it was
RemoveKeepingCount(r, f) ==
  IF ~r.is_accessible[f]
  THEN r
  ELSE LET r1 == IF r.use_count[f] < r.k
                 THEN [r EXCEPT !.history_list = EraseValue(@, f),
                                !.history_map = @ \ {f}]
                 ELSE [r EXCEPT !.cache_list = EraseValue(@, f),
                                !.cache_map = @ \ {f}]
       IN  [r1 EXCEPT !.is_accessible[f] = FALSE,
                      !.curr_size = @ - 1]

\* Remove for a frame id that passes the range check
Remove(r, f) ==
  IF ~r.is_accessible[f]
  THEN r
  ELSE LET r1 == IF r.use_count[f] < r.k
                 THEN [r EXCEPT !.history_list = EraseValue(@, f),
                                !.history_map = @ \ {f}]
                 ELSE [r EXCEPT !.cache_list = EraseValue(@, f),
                                !.cache_map = @ \ {f}]
       IN  [r1 EXCEPT !.use_count[f] = 0,
                      !.is_accessible[f] = FALSE,
                      !.curr_size = @ - 1]

Size(r) == r.curr_size

(***************************************************************************)
(* The record of a call: its name and what it returned.                    *)
(*   ret: "page" / "null" for a Page *, "true" / "false" for a bool,       *)
(*        "void", or "throw" for std::exception.                           *)
(*   frame: the frame of the returned Page *, or the frame id Evict wrote  *)
(*          to its out parameter; NoFrame otherwise.                       *)
(***************************************************************************)
Call(op, ret, frame) == [op |-> op, ret |-> ret, frame |-> frame]

\* RecordAccess, SetEvictable and Remove all throw the same std::exception()
\* on an out-of-range frame id; the caller observes only that exception.
Thrown == Call("std::exception", "throw", NoFrame)

Event(ev, page_id, data) == [ev |-> ev, page_id |-> page_id, data |-> data]

Bool(b) == IF b THEN "true" ELSE "false"

\* Trie(): a default-constructed trie, root_ null, and nothing allocated
TrieInit ==
  /\ heap = <<>>
  /\ roots = <<NullNode>>

\* a thread that is in no method of the replacer
Idle == [op |-> "idle", frame |-> NoFrame, flag |-> FALSE]

\* no thread is inside the replacer
ThreadInit ==
  /\ latch = NoThread
  /\ pc = [t \in Threads |-> Idle]

\* no client has written anything: the latest bytes of a page are those on disk
ClientInit ==
  /\ latest = [p \in PageIds |-> disk[p]]
  /\ owed = {}

Init ==
  /\ pages = [f \in Frames |->
                [page_id |-> INVALID_PAGE_ID, pin_count |-> 0,
                 is_dirty |-> FALSE, data |-> "zero"]]
  /\ page_table = <<>>
  /\ free_list = [i \in 1..NumFrames |-> i - 1]
  /\ next_page_id = 0
  /\ replacer = LRUKReplacer(NumFrames, PoolK)
  /\ disk = [p \in PageArgs |-> "zero"]
  /\ last = Call("none", "void", NoFrame)
  /\ io = <<>>
  /\ arrival = <<>>
  /\ accesses = <<>>
  /\ TrieInit
  /\ ThreadInit
  /\ ClientInit

(***************************************************************************)
(* The replacer called on its own (as its unit tests call it).             *)
(***************************************************************************)
bpm_vars == <<pages, page_table, free_list, next_page_id, disk, io>>

\* the history of accesses without those of frame f (f was reset)
Forget(acc, f) == SelectSeq(acc, LAMBDA x : x # f)

\* the history of accesses after one more access of frame f: the last k of f stay
Remember(acc, f, k) ==
  LET a == Append(acc, f)
  IN  IF Cardinality({i \in 1..Len(a) : a[i] = f}) > k THEN EraseValue(a, f) ELSE a

EvictCall ==
  LET e == Evict(replacer)
  IN  /\ replacer' = e.r
      /\ last' = Call("Evict", Bool(e.found), IF e.found THEN e.frame_id ELSE NoFrame)
      /\ arrival' = IF e.found THEN EraseValue(arrival, e.frame_id) ELSE arrival
      /\ UNCHANGED bpm_vars

RecordAccessCall(f) ==
  IF OutOfRange(replacer, f)
  THEN /\ last' = Thrown
       /\ UNCHANGED <<replacer, arrival, bpm_vars>>
  ELSE /\ replacer.use_count[f] < MaxUse(replacer.k)
       /\ replacer' = RecordAccess(replacer, f)
       /\ last' = Call("RecordAccess", "void", NoFrame)
       /\ arrival' = IF replacer.use_count[f] + 1 >= replacer.k
                     THEN EraseValue(arrival, f)
                     ELSE IF replacer.use_count[f] = 0 THEN Append(arrival, f)
                     ELSE arrival
       /\ UNCHANGED bpm_vars

SetEvictableCall(f, b) ==
  IF OutOfRange(replacer, f)
  THEN /\ last' = Thrown
       /\ UNCHANGED <<replacer, arrival, bpm_vars>>
  ELSE /\ replacer' = SetEvictable(replacer, f, b)
       /\ last' = Call("SetEvictable", "void", NoFrame)
       /\ UNCHANGED <<arrival, bpm_vars>>

RemoveCall(f) ==
  IF OutOfRange(replacer, f)
  THEN /\ last' = Thrown
       /\ UNCHANGED <<replacer, arrival, bpm_vars>>
  ELSE /\ replacer' = Remove(replacer, f)
       /\ last' = Call("Remove", "void", NoFrame)
       /\ arrival' = IF replacer.is_accessible[f] THEN EraseValue(arrival, f) ELSE arrival
       /\ UNCHANGED bpm_vars

\* the variables no call of the replacer on its own touches
replacer_rest == <<trie_vars, thread_vars, client_vars>>

NextReplacer ==
  \/ EvictCall /\ UNCHANGED <<accesses, replacer_rest>>
  \/ \E f \in FrameArgs : RecordAccessCall(f) /\ UNCHANGED <<accesses, replacer_rest>>
  \/ \E f \in FrameArgs, b \in BOOLEAN :
       SetEvictableCall(f, b) /\ UNCHANGED <<accesses, replacer_rest>>
  \/ \E f \in FrameArgs : RemoveCall(f) /\ UNCHANGED <<accesses, replacer_rest>>

\* LRUKReplacer(num_frames, k) built on its own; the pool's variables stay as built
InitReplacer ==
  /\ \E k \in 1..MaxK : replacer = LRUKReplacer(NumFrames, k)
  /\ pages = [f \in Frames |->
                [page_id |-> INVALID_PAGE_ID, pin_count |-> 0,
                 is_dirty |-> FALSE, data |-> "zero"]]
  /\ page_table = <<>>
  /\ free_list = [i \in 1..NumFrames |-> i - 1]
  /\ next_page_id = 0
  /\ disk = [p \in PageArgs |-> "zero"]
  /\ last = Call("none", "void", NoFrame)
  /\ io = <<>>
  /\ arrival = <<>>
  /\ accesses = <<>>
  /\ TrieInit
  /\ ThreadInit
  /\ ClientInit

SpecReplacer == InitReplacer /\ [][NextReplacer]_vars

\* the replacer called on its own, with the history of the accesses kept beside it
NextAccesses ==
  \/ /\ EvictCall
     /\ accesses' = IF last'.ret = "true" THEN Forget(accesses, last'.frame) ELSE accesses
     /\ UNCHANGED replacer_rest
  \/ \E f \in FrameArgs :
       /\ RecordAccessCall(f)
       /\ accesses' = IF OutOfRange(replacer, f) THEN accesses
                       ELSE Remember(accesses, f, replacer.k)
       /\ UNCHANGED replacer_rest
  \/ \E f \in FrameArgs, b \in BOOLEAN :
       SetEvictableCall(f, b) /\ UNCHANGED <<accesses, replacer_rest>>
  \/ \E f \in FrameArgs :
       /\ RemoveCall(f)
       /\ accesses' = IF ~OutOfRange(replacer, f) /\ replacer.is_accessible[f]
                       THEN Forget(accesses, f) ELSE accesses
       /\ UNCHANGED replacer_rest

SpecAccesses == InitReplacer /\ [][NextAccesses]_vars

(***************************************************************************)
(* The replacer called by several threads.  Evict, RecordAccess,           *)
(* SetEvictable and Remove open with std::lock_guard guard(latch_): a      *)
(* thread enters when the latch is free, runs the body holding it, and the *)
(* guard's destructor frees it on return or throw.  Size() is the single   *)
(* statement "return curr_size_" and takes no latch.                       *)
(***************************************************************************)
\* the calls that take the latch, with their arguments
LatchedCalls ==
  {[op |-> "Evict", frame |-> NoFrame, flag |-> FALSE]}
    \cup {[op |-> "RecordAccess", frame |-> f, flag |-> FALSE] : f \in FrameArgs}
    \cup {[op |-> "SetEvictable", frame |-> f, flag |-> b] : f \in FrameArgs, b \in BOOLEAN}
    \cup {[op |-> "Remove", frame |-> f, flag |-> FALSE] : f \in FrameArgs}

\* the replacer as the body of a call leaves it
AfterCall(r, call) ==
  IF call.op = "Evict" THEN Evict(r).r
  ELSE IF OutOfRange(r, call.frame) THEN r
  ELSE IF call.op = "RecordAccess" THEN RecordAccess(r, call.frame)
  ELSE IF call.op = "SetEvictable" THEN SetEvictable(r, call.frame, call.flag)
  ELSE Remove(r, call.frame)

\* const std::lock_guard<std::mutex> guard(latch_)
Lock(t, call) ==
  /\ pc[t] = Idle
  /\ latch = NoThread
  /\ (call.op = "RecordAccess" /\ ~OutOfRange(replacer, call.frame)) =>
       replacer.use_count[call.frame] < MaxUse(replacer.k)
  /\ latch' = t
  /\ pc' = [pc EXCEPT ![t] = call]
  /\ UNCHANGED <<replacer, last, arrival, bpm_vars>>

\* the body of the method the thread is in, and the guard's destructor
Body(t) ==
  /\ latch = t
  /\ \/ pc[t].op = "Evict" /\ EvictCall
     \/ pc[t].op = "RecordAccess" /\ RecordAccessCall(pc[t].frame)
     \/ pc[t].op = "SetEvictable" /\ SetEvictableCall(pc[t].frame, pc[t].flag)
     \/ pc[t].op = "Remove" /\ RemoveCall(pc[t].frame)
  /\ latch' = NoThread
  /\ pc' = [pc EXCEPT ![t] = Idle]

\* what "return curr_size_" can read: curr_size_, and, when another thread is in
\* a body that writes curr_size_, the value that body leaves (the read races
\* with the write)
SizeReads ==
  {replacer.curr_size}
    \cup {AfterCall(replacer, pc[u]).curr_size : u \in {v \in Threads : latch = v}}

\* Size(): no latch is taken
SizeCall(t) ==
  /\ pc[t] = Idle
  /\ \E n \in SizeReads : last' = Call("Size", ToString(n), NoFrame)
  /\ UNCHANGED <<replacer, arrival, bpm_vars, latch, pc>>

\* the variables no thread of the replacer touches
threads_rest == <<accesses, trie_vars, client_vars>>

NextThreads ==
  \/ \E t \in Threads, call \in LatchedCalls : Lock(t, call) /\ UNCHANGED threads_rest
  \/ \E t \in Threads : Body(t) /\ UNCHANGED threads_rest
  \/ \E t \in Threads : SizeCall(t) /\ UNCHANGED threads_rest

SpecThreads == Init /\ [][NextThreads]_vars

(***************************************************************************)
(* BufferPoolManager                                                       *)
(***************************************************************************)
\* std::unordered_map erase and operator[] assignment
MapErase(m, key) == [p \in (DOMAIN m) \ {key} |-> m[p]]

MapPut(m, key, val) == [p \in (DOMAIN m) \cup {key} |-> IF p = key THEN val ELSE m[p]]

\* DiskManager after the WritePage calls of a list of events
RECURSIVE ApplyIO(_, _)
ApplyIO(d, evs) ==
  IF evs = <<>> THEN d
  ELSE LET e == Head(evs)
       IN  ApplyIO(IF e.ev = "WritePage" THEN [d EXCEPT ![e.page_id] = e.data] ELSE d,
                   Tail(evs))

\* a write-back that is forgotten
WriteBackNever(pg) == <<>>

\* "if dirty, write back to the disk": the WritePage calls made for a frame
WriteBack(pg) ==
  IF pg.is_dirty THEN <<Event("WritePage", pg.page_id, pg.data)>> ELSE <<>>

\* Finding a frame for a page that is not resident, in NewPage and in FetchPage:
\* the free list first, then the replacer; a victim is written back when dirty
\* and its page id is erased from the page table.
TakeFrame ==
  IF free_list # <<>>
  THEN [ok |-> TRUE, evicted |-> FALSE, frame_id |-> Back(free_list),
        free_list |-> PopBack(free_list), replacer |-> replacer,
        pages |-> pages, page_table |-> page_table, io |-> <<>>]
  ELSE LET e == Evict(replacer)
       IN  IF ~e.found
           THEN [ok |-> FALSE, evicted |-> FALSE, frame_id |-> NoFrame,
                 free_list |-> free_list, replacer |-> replacer,
                 pages |-> pages, page_table |-> page_table, io |-> <<>>]
           ELSE LET f == e.frame_id
                    old == pages[f].page_id
                IN  [ok |-> TRUE, evicted |-> TRUE, frame_id |-> f,
                     free_list |-> free_list, replacer |-> e.r,
                     pages |-> [pages EXCEPT ![f].is_dirty = FALSE],
                     page_table |-> MapErase(page_table, old),
                     io |-> WriteBack(pages[f]) \o <<Event("Erase", old, "zero")>>]

NewPage ==
  /\ next_page_id <= MaxPageId
  /\ next_page_id' = next_page_id + 1
  /\ LET new_page_id == next_page_id
         t == TakeFrame
         f == t.frame_id
     IN  IF ~t.ok
         THEN /\ last' = Call("NewPage", "null", NoFrame)
              /\ io' = <<>>
              /\ UNCHANGED <<pages, page_table, free_list, replacer, disk>>
         ELSE /\ page_table' = MapPut(t.page_table, new_page_id, f)
              /\ pages' = [t.pages EXCEPT ![f] =
                             [page_id |-> new_page_id, is_dirty |-> FALSE,
                              pin_count |-> 1, data |-> "zero"]]
              /\ free_list' = t.free_list
              /\ replacer' = SetEvictable(RecordAccess(t.replacer, f), f, FALSE)
              /\ io' = t.io \o <<Event("Map", new_page_id, "zero"),
                                 Event("ResetMemory", new_page_id, "zero")>>
              /\ disk' = ApplyIO(disk, io')
              /\ last' = Call("NewPage", "page", f)
  /\ UNCHANGED arrival

FetchPage(page_id) ==
  /\ IF page_id \in DOMAIN page_table
     THEN LET f == page_table[page_id]
          IN  /\ pages[f].pin_count < MaxPin
              /\ replacer.use_count[f] < MaxUse(replacer.k)
              /\ pages' = [pages EXCEPT ![f].pin_count = @ + 1]
              /\ replacer' = SetEvictable(RecordAccess(replacer, f), f, FALSE)
              /\ io' = <<>>
              /\ last' = Call("FetchPage", "page", f)
              /\ UNCHANGED <<page_table, free_list, disk>>
     ELSE LET t == TakeFrame
              f == t.frame_id
          IN  IF ~t.ok
              THEN /\ last' = Call("FetchPage", "null", NoFrame)
                   /\ io' = <<>>
                   /\ UNCHANGED <<pages, page_table, free_list, replacer, disk>>
              ELSE LET d == ApplyIO(disk, t.io)
                   IN  /\ page_table' = MapPut(t.page_table, page_id, f)
                       /\ pages' = [t.pages EXCEPT ![f] =
                                      [page_id |-> page_id, is_dirty |-> FALSE,
                                       pin_count |-> 1, data |-> d[page_id]]]
                       /\ free_list' = t.free_list
                       /\ replacer' = RecordAccess(SetEvictable(t.replacer, f, FALSE), f)
                       /\ io' = t.io \o <<Event("Map", page_id, "zero"),
                                          Event("ReadPage", page_id, d[page_id])>>
                       /\ disk' = d
                       /\ last' = Call("FetchPage", "page", f)
  /\ UNCHANGED <<next_page_id, arrival>>

\* the dirty flag assigned, not or-ed
UnpinDirtyAssigned(old, is_dirty) == is_dirty

\* "cannot replace origin dirty flag": is_dirty_ |= is_dirty
UnpinDirty(old, is_dirty) == old \/ is_dirty

UnpinPage(page_id, is_dirty) ==
  /\ IF page_id \notin DOMAIN page_table
     THEN /\ last' = Call("UnpinPage", "false", NoFrame)
          /\ UNCHANGED <<pages, replacer>>
     ELSE LET f == page_table[page_id]
          IN  IF pages[f].pin_count = 0
              THEN /\ last' = Call("UnpinPage", "false", NoFrame)
                   /\ UNCHANGED <<pages, replacer>>
              ELSE /\ pages' = [pages EXCEPT ![f].is_dirty = UnpinDirty(@, is_dirty),
                                             ![f].pin_count = @ - 1]
                   /\ replacer' = IF pages'[f].pin_count = 0
                                  THEN SetEvictable(replacer, f, TRUE)
                                  ELSE replacer
                   /\ last' = Call("UnpinPage", "true", NoFrame)
  /\ io' = <<>>
  /\ UNCHANGED <<page_table, free_list, next_page_id, disk, arrival>>

\* a flush that writes dirty pages only
FlushWriteIfDirty(pg) ==
  IF pg.is_dirty THEN <<Event("WritePage", pg.page_id, pg.data)>> ELSE <<>>

\* the WritePage call of FlushPage
FlushWrite(pg) == <<Event("WritePage", pg.page_id, pg.data)>>

FlushPage(page_id) ==
  /\ IF page_id = INVALID_PAGE_ID \/ page_id \notin DOMAIN page_table
     THEN /\ last' = Call("FlushPage", "false", NoFrame)
          /\ io' = <<>>
          /\ UNCHANGED <<pages, disk>>
     ELSE LET f == page_table[page_id]
          IN  /\ io' = FlushWrite(pages[f])
              /\ disk' = ApplyIO(disk, io')
              /\ pages' = [pages EXCEPT ![f].is_dirty = FALSE]
              /\ last' = Call("FlushPage", "true", NoFrame)
  /\ UNCHANGED <<page_table, free_list, next_page_id, replacer, arrival>>

\* the frames FlushAllPages writes, and its WritePage calls in frame order
FlushAllDue(i) == pages[i].is_dirty /\ pages[i].page_id # INVALID_PAGE_ID

RECURSIVE FlushAllIO(_)
FlushAllIO(i) ==
  IF i >= NumFrames THEN <<>>
  ELSE (IF FlushAllDue(i)
        THEN <<Event("WritePage", pages[i].page_id, pages[i].data)>>
        ELSE <<>>) \o FlushAllIO(i + 1)

FlushAllPages ==
  /\ io' = FlushAllIO(0)
  /\ disk' = ApplyIO(disk, io')
  /\ pages' = [i \in Frames |->
                 IF FlushAllDue(i) THEN [pages[i] EXCEPT !.is_dirty = FALSE] ELSE pages[i]]
  /\ last' = Call("FlushAllPages", "void", NoFrame)
  /\ UNCHANGED <<page_table, free_list, next_page_id, replacer, arrival>>

DeletePage(page_id) ==
  /\ IF page_id \notin DOMAIN page_table
     THEN /\ last' = Call("DeletePage", "true", NoFrame)
          /\ io' = <<>>
          /\ UNCHANGED <<pages, page_table, free_list, replacer, disk>>
     ELSE LET f == page_table[page_id]
          IN  IF pages[f].pin_count # 0
              THEN /\ last' = Call("DeletePage", "false", NoFrame)
                   /\ io' = <<>>
                   /\ UNCHANGED <<pages, page_table, free_list, replacer, disk>>
              ELSE /\ io' = WriteBack(pages[f]) \o
                              <<Event("Erase", page_id, "zero"),
                                Event("ResetMemory", page_id, "zero")>>
                   /\ disk' = ApplyIO(disk, io')
                   /\ page_table' = MapErase(page_table, page_id)
                   /\ pages' = [pages EXCEPT ![f] =
                                  [page_id |-> INVALID_PAGE_ID, is_dirty |-> FALSE,
                                   pin_count |-> @.pin_count, data |-> "zero"]]
                   /\ replacer' = Remove(replacer, f)
                   /\ free_list' = PushBack(free_list, f)
                   /\ last' = Call("DeletePage", "true", NoFrame)
  /\ UNCHANGED <<next_page_id, arrival>>

\* the variables no method of the pool touches
pool_rest == <<accesses, trie_vars, thread_vars, client_vars>>

Next ==
  \/ NewPage /\ UNCHANGED pool_rest
  \/ \E p \in PageIds : FetchPage(p) /\ UNCHANGED pool_rest
  \/ \E p \in PageArgs, d \in BOOLEAN : UnpinPage(p, d) /\ UNCHANGED pool_rest
  \/ \E p \in PageArgs : FlushPage(p) /\ UNCHANGED pool_rest
  \/ FlushAllPages /\ UNCHANGED pool_rest
  \/ \E p \in PageArgs : DeletePage(p) /\ UNCHANGED pool_rest

Spec == Init /\ [][Next]_vars

\* the pool opened on a database file that already holds page 0: DiskManager
\* opens an existing file, and ReadPage then returns the bytes stored in it
InitDisk ==
  /\ pages = [f \in Frames |->
                [page_id |-> INVALID_PAGE_ID, pin_count |-> 0,
                 is_dirty |-> FALSE, data |-> "zero"]]
  /\ page_table = <<>>
  /\ free_list = [i \in 1..NumFrames |-> i - 1]
  /\ next_page_id = 0
  /\ replacer = LRUKReplacer(NumFrames, PoolK)
  /\ disk \in {d \in [PageArgs -> Bytes] : \A p \in PageArgs \ {0} : d[p] = "zero"}
  /\ last = Call("none", "void", NoFrame)
  /\ io = <<>>
  /\ arrival = <<>>
  /\ accesses = <<>>
  /\ TrieInit
  /\ ThreadInit
  /\ ClientInit

SpecDisk == InitDisk /\ [][Next]_vars

(***************************************************************************)
(* The pool with its clients.  A client that holds a pin on a page writes  *)
(* into the page's bytes (Page::GetData) and afterwards calls              *)
(* UnpinPage(page_id, true); other holders of a pin unpin with false.      *)
(* DeletePage is not called.  Clients write the pages 0..MaxWrittenPage and *)
(* never write a page back to zeroes.                                      *)
(***************************************************************************)
WrittenBytes == Bytes \ {"zero"}

\* a client writes new bytes into a page it has pinned
WriteData(f) ==
  /\ pages[f].pin_count > 0
  /\ pages[f].page_id \in 0..MaxWrittenPage
  /\ \E b \in WrittenBytes \ {pages[f].data} :
       /\ pages' = [pages EXCEPT ![f].data = b]
       /\ latest' = [latest EXCEPT ![pages[f].page_id] = b]
  /\ owed' = owed \cup {pages[f].page_id}
  /\ last' = Call("WriteData", "void", NoFrame)
  /\ io' = <<>>
  /\ UNCHANGED <<page_table, free_list, next_page_id, replacer, disk, arrival>>

\* UnpinPage as the clients call it: the client that wrote into the page passes
\* true; false comes from another holder of a pin only
ClientUnpin(page_id, is_dirty) ==
  /\ (page_id \in owed /\ ~is_dirty /\ page_id \in DOMAIN page_table) =>
       pages[page_table[page_id]].pin_count > 1
  /\ UnpinPage(page_id, is_dirty)
  /\ owed' = IF is_dirty /\ last'.ret = "true" THEN owed \ {page_id} ELSE owed
  /\ UNCHANGED latest

\* the variables neither the pool nor its clients touch
clients_rest == <<accesses, trie_vars, thread_vars>>

NextClients ==
  \/ NewPage /\ UNCHANGED <<client_vars, clients_rest>>
  \/ \E p \in PageIds : FetchPage(p) /\ UNCHANGED <<client_vars, clients_rest>>
  \/ \E p \in PageArgs, d \in BOOLEAN : ClientUnpin(p, d) /\ UNCHANGED clients_rest
  \/ \E p \in PageArgs : FlushPage(p) /\ UNCHANGED <<client_vars, clients_rest>>
  \/ FlushAllPages /\ UNCHANGED <<client_vars, clients_rest>>
  \/ \E f \in Frames : WriteData(f) /\ UNCHANGED clients_rest

SpecClients == Init /\ [][NextClients]_vars

(***************************************************************************)
(* Trie (src/primer/trie.cpp).  A TrieNode object is an entry of heap, a   *)
(* std::shared_ptr to it is its index, and make_shared / Clone append an   *)
(* entry.  A write through a pointer changes the entry it points to, so a  *)
(* node shared with an earlier trie would be seen to change.               *)
(***************************************************************************)
\* the characters of a key, and the keys: strings of at most MaxKeyLen characters
Chars == {"a", "b"}

TrieKeys == UNION {[1..n -> Chars] : n \in 0..MaxKeyLen}

\* the instantiations of Put<T> / Get<T>, and the typed values stored
TrieTypes == {"uint32_t", "uint64_t"}

TrieValues == [type : TrieTypes, value : 1..MaxVal]

\* what Get returns for nullptr
Absent == [type |-> "none", value |-> 0]

\* TrieNode(children): a node that holds no value
TrieNode(children) ==
  [children |-> children, is_value_node |-> FALSE, value |-> Absent]

\* TrieNodeWithValue<T>(children, value)
TrieNodeWithValue(children, val) ==
  [children |-> children, is_value_node |-> TRUE, value |-> val]

NoChildren == <<>>

\* make_shared / Clone: the heap with one more object; the new pointer is its length
Alloc(h, node) == Append(h, node)

\* ptr->children_[c] = child
SetChild(h, ptr, c, child) ==
  [h EXCEPT ![ptr].children =
     [x \in (DOMAIN @) \cup {c} |-> IF x = c THEN child ELSE @[x]]]

\* an erase that leaves the child where it was
EraseChildNot(h, ptr, c) == h

\* node->children_.erase(c)
EraseChild(h, ptr, c) ==
  [h EXCEPT ![ptr].children = [x \in (DOMAIN @) \ {c} |-> @[x]]]

\* Get: the walk from the root along the key; NullNode when a branch is missing
RECURSIVE GetWalk(_, _, _, _)
GetWalk(h, ptr, key, i) ==
  IF i > Len(key) THEN ptr
  ELSE IF key[i] \in DOMAIN h[ptr].children
       THEN GetWalk(h, h[ptr].children[key[i]], key, i + 1)
       ELSE NullNode

\* a cast that takes the value whatever its type
DynamicCastUnchecked(node, T) == node.value

\* dynamic_cast<const TrieNodeWithValue<T> *> of a value node: its value when the
\* node is a TrieNodeWithValue<T>, Absent for the null the cast gives otherwise
DynamicCast(node, T) == IF node.value.type = T THEN node.value ELSE Absent

\* Get<T>(key) on the trie with this root: the value, or Absent for nullptr
Get(h, root, key, T) ==
  IF root = NullNode THEN Absent
  ELSE LET ptr == GetWalk(h, root, key, 1)
       IN  IF ptr = NullNode THEN Absent
           ELSE IF ~h[ptr].is_value_node THEN Absent
           ELSE DynamicCast(h[ptr], T)

\* a Clone that hands back the node itself instead of a copy
CloneShared(h, n) == [heap |-> h, ptr |-> n]

\* node->Clone(): a new object with the same children and value
Clone(h, n) == [heap |-> Alloc(h, h[n]), ptr |-> Len(h) + 1]

\* the loop of Put over the characters of a key that is not empty, from the
\* i-th on, below the node ptr (a node this Put created): the heap after it
RECURSIVE PutWalk(_, _, _, _, _)
PutWalk(h, ptr, key, i, val) ==
  LET c == key[i]
  IN  IF i = Len(key)
      THEN LET kids == IF c \in DOMAIN h[ptr].children
                       THEN h[h[ptr].children[c]].children
                       ELSE NoChildren
               h1 == Alloc(h, TrieNodeWithValue(kids, val))
           IN  SetChild(h1, ptr, c, Len(h1))
      ELSE IF c \notin DOMAIN h[ptr].children
           THEN LET h1 == Alloc(h, TrieNode(NoChildren))
                IN  PutWalk(SetChild(h1, ptr, c, Len(h1)), Len(h1), key, i + 1, val)
           ELSE LET cl == Clone(h, h[ptr].children[c])
                IN  PutWalk(SetChild(cl.heap, ptr, c, cl.ptr), cl.ptr, key, i + 1, val)

\* Put<T>(key, value) on the trie with this root: the heap and the root of the
\* trie returned
RECURSIVE Put(_, _, _, _)
Put(h, root, key, val) ==
  IF root = NullNode
  THEN LET h1 == Alloc(h, TrieNode(NoChildren))
       IN  Put(h1, Len(h1), key, val)
  ELSE LET cl == Clone(h, root)
       IN  IF key = <<>>
           THEN LET h2 == Alloc(cl.heap, TrieNodeWithValue(h[root].children, val))
                IN  [heap |-> h2, root |-> Len(h2)]
           ELSE [heap |-> PutWalk(cl.heap, cl.ptr, key, 1, val), root |-> cl.ptr]

\* a Dfs that keeps every node it copied
DeadNodeKept(node) == FALSE

\* "if the node doesn't have child, delete it"
DeadNode(node) == ~node.is_value_node /\ DOMAIN node.children = {}

\* Dfs(root, key, index) for a root that is not null: the heap after it and the
\* node returned, NullNode for nullptr
RECURSIVE Dfs(_, _, _, _)
Dfs(h, root, key, index) ==
  IF index = Len(key)
  THEN IF DOMAIN h[root].children = {}
       THEN [heap |-> h, node |-> NullNode]
       ELSE LET h1 == Alloc(h, TrieNode(h[root].children))
            IN  [heap |-> h1, node |-> Len(h1)]
  ELSE LET c == key[index + 1]
       IN  IF c \in DOMAIN h[root].children
           THEN LET d  == Dfs(h, h[root].children[c], key, index + 1)
                    cl == Clone(d.heap, root)
                IN  IF d.node # NullNode
                    THEN [heap |-> SetChild(cl.heap, cl.ptr, c, d.node), node |-> cl.ptr]
                    ELSE LET h2 == EraseChild(cl.heap, cl.ptr, c)
                         IN  IF DeadNode(h2[cl.ptr])
                             THEN [heap |-> h2, node |-> NullNode]
                             ELSE [heap |-> h2, node |-> cl.ptr]
           ELSE [heap |-> h, node |-> root]

\* the trie operations called one after another on the tries obtained so far.
\* A call on a null root_ in Remove reads through a null pointer in Dfs: the
\* process is killed, or, where that read yields an empty map, nullptr comes back.
Killed == last.ret = "segv"

PutCall(t, key, val) ==
  /\ ~Killed
  /\ Len(roots) < MaxTries
  /\ LET p == Put(heap, roots[t], key, val)
     IN  /\ heap' = p.heap
         /\ roots' = Append(roots, p.root)
  /\ last' = Call("Put", "trie", NoFrame)

TrieRemoveCall(t, key) ==
  /\ ~Killed
  /\ Len(roots) < MaxTries
  /\ IF roots[t] = NullNode
     THEN \/ /\ last' = Call("Remove", "segv", NoFrame)
             /\ UNCHANGED <<heap, roots>>
          \/ /\ last' = Call("Remove", "trie", NoFrame)
             /\ roots' = Append(roots, NullNode)
             /\ UNCHANGED heap
     ELSE LET d == Dfs(heap, roots[t], key, 0)
          IN  /\ heap' = d.heap
              /\ roots' = Append(roots, d.node)
              /\ last' = Call("Remove", "trie", NoFrame)

\* the variables no call of the trie touches
trie_rest == <<pages, page_table, free_list, next_page_id, replacer, disk, io,
               arrival, accesses, thread_vars, client_vars>>

NextTrie ==
  \/ \E t \in 1..Len(roots), key \in TrieKeys, val \in TrieValues :
       PutCall(t, key, val) /\ UNCHANGED trie_rest
  \/ \E t \in 1..Len(roots), key \in TrieKeys :
       TrieRemoveCall(t, key) /\ UNCHANGED trie_rest

SpecTrie == Init /\ [][NextTrie]_vars

(***************************************************************************)
(* Vocabulary of the properties.                                           *)
(***************************************************************************)
\* a page is resident when the page table has it
Resident(p) == p \in DOMAIN page_table

\* a frame is resident when it holds a page
ResidentFrame(f) == pages[f].page_id # INVALID_PAGE_ID

TableFrames == {page_table[p] : p \in DOMAIN page_table}

FreeFrames == Range(free_list)

HasEvent(evs, ev) == \E i \in 1..Len(evs) : evs[i].ev = ev

EventIdx(evs, ev) == {i \in 1..Len(evs) : evs[i].ev = ev}

\* the last call was a NewPage or FetchPage that took its frame from the replacer
TookVictim == last.op \in {"NewPage", "FetchPage"} /\ HasEvent(io, "Erase")

(***************************************************************************)
(* C1: the frame NewPage or FetchPage takes from the replacer has          *)
(* pin_count = 0 when it is chosen, and no frame with pin_count > 0 is     *)
(* given another page.                                                     *)
(***************************************************************************)
C1_VictimUnpinned ==
  [][ /\ TookVictim' => pages[last'.frame].pin_count = 0
      /\ \A f \in Frames :
           pages[f].pin_count > 0 => pages'[f].page_id = pages[f].page_id ]_vars

\* a victim was taken while the other frame stayed pinned
C1_Witness ==
  /\ TookVictim
  /\ \E g \in Frames : g # last.frame /\ pages[g].pin_count > 0

(***************************************************************************)
(* C2: every frame id is in exactly one of the free list and the values of *)
(* the page table, and appears there once.                                 *)
(***************************************************************************)
C2_FramePartition ==
  /\ \A f \in Frames : (f \in FreeFrames) # (f \in TableFrames)
  /\ Cardinality(FreeFrames) = Len(free_list)
  /\ Cardinality(TableFrames) = Cardinality(DOMAIN page_table)

(***************************************************************************)
(* C3: the page ids held by the frames are the keys of the page table,     *)
(* page_table[p] = f implies frame f holds p, and each resident page is    *)
(* held by exactly one frame.                                              *)
(***************************************************************************)
C3_ResidencyBijection ==
  /\ {pages[f].page_id : f \in {g \in Frames : ResidentFrame(g)}} = DOMAIN page_table
  /\ \A p \in DOMAIN page_table : pages[page_table[p]].page_id = p
  /\ \A p \in DOMAIN page_table :
       Cardinality({f \in Frames : pages[f].page_id = p}) = 1

(***************************************************************************)
(* C4: when NewPage or FetchPage displaces a page from a dirty frame, it   *)
(* makes exactly one WritePage call, of the frame's bytes to the old page  *)
(* id, before the page-table erase and before the frame is overwritten;    *)
(* when the frame is clean it makes no WritePage call.                     *)
(***************************************************************************)
C4_DirtyWriteBack ==
  [][ TookVictim' =>
        LET f   == last'.frame
            old == pages[f].page_id
            W   == EventIdx(io', "WritePage")
        IN  IF pages[f].is_dirty
            THEN /\ \E i \in W :
                      /\ W = {i}
                      /\ io'[i] = Event("WritePage", old, pages[f].data)
                      /\ \A j \in (1..Len(io')) \ {i} : i < j
                 /\ \E j \in EventIdx(io', "Erase") : io'[j].page_id = old
                 /\ disk'[old] = pages[f].data
            ELSE W = {} ]_vars

\* a dirty page holding bytes read from the file was displaced and written back
C4_Witness ==
  /\ TookVictim
  /\ \E i \in EventIdx(io, "WritePage") : io[i].data = "hello"

(***************************************************************************)
(* C5: NewPage, and FetchPage of a page that is not resident, return null  *)
(* exactly when the free list is empty and no resident frame has           *)
(* pin_count = 0; otherwise they return a frame with pin_count = 1.  A     *)
(* null return leaves page table, free list, frames and replacer as they   *)
(* were.                                                                   *)
(***************************************************************************)
Exhausted ==
  /\ free_list = <<>>
  /\ ~\E f \in Frames : ResidentFrame(f) /\ pages[f].pin_count = 0

C5_NullIffExhausted ==
  [][ (NewPage \/ \E p \in PageIds : ~Resident(p) /\ FetchPage(p)) =>
        /\ (last'.ret = "null") <=> Exhausted
        /\ last'.ret = "page" => pages'[last'.frame].pin_count = 1
        /\ last'.ret = "null" => UNCHANGED <<page_table, free_list, pages, replacer>>
    ]_vars

\* a call found every frame pinned and returned null
C5_Witness ==
  /\ last.op \in {"NewPage", "FetchPage"}
  /\ last.ret = "null"
  /\ \A f \in Frames : pages[f].pin_count > 0

(***************************************************************************)
(* C6: UnpinPage(p, d) returns false and changes nothing when p is not     *)
(* resident or its pin_count is 0; otherwise it returns true, decrements   *)
(* pin_count by 1 and sets is_dirty to (old is_dirty or d).                *)
(***************************************************************************)
C6_Unpin ==
  [][ \A p \in PageArgs, d \in BOOLEAN : UnpinPage(p, d) =>
        IF ~Resident(p) \/ pages[page_table[p]].pin_count = 0
        THEN /\ last'.ret = "false"
             /\ UNCHANGED <<pages, replacer, page_table, free_list, disk>>
        ELSE LET f == page_table[p]
             IN  /\ last'.ret = "true"
                 /\ pages'[f].pin_count = pages[f].pin_count - 1
                 /\ pages'[f].is_dirty = (pages[f].is_dirty \/ d)
                 /\ \A g \in Frames \ {f} : pages'[g] = pages[g]
    ]_vars

\* an unpin left a page pinned once more and dirty
C6_Witness ==
  /\ last.op = "UnpinPage"
  /\ last.ret = "true"
  /\ \E f \in Frames : pages[f].is_dirty /\ pages[f].pin_count = 1

(***************************************************************************)
(* C7: a resident frame is evictable in the replacer iff its pin_count is  *)
(* 0, and replacer.Size() is the number of resident frames with            *)
(* pin_count = 0.                                                          *)
(***************************************************************************)
C7_EvictableIffUnpinned ==
  /\ \A f \in Frames :
       ResidentFrame(f) => (replacer.is_accessible[f] <=> pages[f].pin_count = 0)
  /\ Size(replacer) =
       Cardinality({f \in Frames : ResidentFrame(f) /\ pages[f].pin_count = 0})

\* one resident frame is unpinned and evictable, another is pinned
C7_Witness ==
  \E f, g \in Frames :
    /\ ResidentFrame(f) /\ pages[f].pin_count = 0 /\ replacer.is_accessible[f]
    /\ ResidentFrame(g) /\ pages[g].pin_count > 0 /\ ~replacer.is_accessible[g]
    /\ Size(replacer) = 1

(***************************************************************************)
(* C8: DeletePage(p) returns true and changes nothing when p is not        *)
(* resident; returns false and changes nothing when p is pinned; and when  *)
(* p is resident and unpinned it returns true with p out of the page       *)
(* table, its frame reset and in the free list, the replacer no longer     *)
(* tracking the frame, and a dirty frame written back first.               *)
(***************************************************************************)
C8_Delete ==
  [][ \A p \in PageArgs : DeletePage(p) =>
        IF ~Resident(p)
        THEN /\ last'.ret = "true"
             /\ UNCHANGED <<pages, page_table, free_list, replacer, disk>>
        ELSE LET f == page_table[p]
             IN  IF pages[f].pin_count > 0
                 THEN /\ last'.ret = "false"
                      /\ UNCHANGED <<pages, page_table, free_list, replacer, disk>>
                 ELSE /\ last'.ret = "true"
                      /\ p \notin DOMAIN page_table'
                      /\ pages'[f].page_id = INVALID_PAGE_ID
                      /\ ~pages'[f].is_dirty
                      /\ f \in Range(free_list')
                      /\ replacer'.use_count[f] = 0
                      /\ ~replacer'.is_accessible[f]
                      /\ f \notin Range(replacer'.history_list) \cup Range(replacer'.cache_list)
                      /\ Size(replacer') = Size(replacer) - 1
                      /\ pages[f].is_dirty =>
                           /\ io'[1] = Event("WritePage", p, pages[f].data)
                           /\ EventIdx(io', "WritePage") = {1}
                           /\ disk'[p] = pages[f].data
    ]_vars

\* a dirty unpinned page holding bytes read from the file was deleted and
\* written back
C8_Witness ==
  /\ last.op = "DeletePage"
  /\ last.ret = "true"
  /\ \E i \in EventIdx(io, "WritePage") : io[i].data = "hello"

(***************************************************************************)
(* C9: FlushPage(p) returns false and changes nothing when p is            *)
(* INVALID_PAGE_ID or not resident; otherwise it makes exactly one         *)
(* WritePage call for p, dirty or not, clears is_dirty, returns true and   *)
(* leaves pin_count, page table, free list and replacer as they were.      *)
(***************************************************************************)
C9_Flush ==
  [][ \A p \in PageArgs : FlushPage(p) =>
        IF p = INVALID_PAGE_ID \/ ~Resident(p)
        THEN /\ last'.ret = "false"
             /\ io' = <<>>
             /\ UNCHANGED <<pages, page_table, free_list, replacer, disk>>
        ELSE LET f == page_table[p]
             IN  /\ last'.ret = "true"
                 /\ io' = <<Event("WritePage", p, pages[f].data)>>
                 /\ disk'[p] = pages[f].data
                 /\ pages' = [pages EXCEPT ![f].is_dirty = FALSE]
                 /\ UNCHANGED <<page_table, free_list, replacer>>
    ]_vars

\* a pinned clean page holding bytes read from the file was flushed
C9_Witness ==
  /\ last.op = "FlushPage"
  /\ last.ret = "true"
  /\ Len(io) = 1
  /\ io[1].data = "hello"
  /\ \E f \in Frames : pages[f].page_id = io[1].page_id /\ pages[f].pin_count > 0

(***************************************************************************)
(* C10: when some evictable frame has fewer than k accesses since its last *)
(* reset, Evict returns the one of them whose first access since reset is  *)
(* the earliest, and no frame with k or more accesses.                     *)
(***************************************************************************)
EvictableSubK ==
  {f \in Slots : replacer.is_accessible[f] /\ replacer.use_count[f] < replacer.k}

Pos(l, x) == CHOOSE i \in 1..Len(l) : l[i] = x

C10_EvictEarliestSubK ==
  [][ (EvictCall /\ EvictableSubK # {}) =>
        /\ last'.ret = "true"
        /\ last'.frame \in EvictableSubK
        /\ \A g \in EvictableSubK : Pos(arrival, last'.frame) <= Pos(arrival, g)
    ]_vars

\* Evict took a frame and left behind an evictable frame below k, accessed twice,
\* and an evictable frame with k accesses
C10_Witness ==
  /\ last.op = "Evict"
  /\ last.ret = "true"
  /\ \E g \in EvictableSubK : replacer.use_count[g] = 2
  /\ \E c \in Slots : replacer.is_accessible[c] /\ replacer.use_count[c] >= replacer.k

(***************************************************************************)
(* C11: when no evictable frame has fewer than k accesses, Evict returns   *)
(* the evictable frame whose k-th most recent access is the oldest among   *)
(* the evictable frames with at least k accesses.                          *)
(***************************************************************************)
EvictableK ==
  {f \in Slots : replacer.is_accessible[f] /\ replacer.use_count[f] >= replacer.k}

\* when the k-th most recent access of f was made: of the last k accesses of f,
\* the place of the oldest in the history
KthAccess(f) ==
  LET idx == {i \in 1..Len(accesses) : accesses[i] = f}
  IN  CHOOSE i \in idx : \A j \in idx : i <= j

C11_EvictOldestKth ==
  [][ (EvictCall /\ EvictableSubK = {} /\ EvictableK # {}) =>
        /\ last'.ret = "true"
        /\ last'.frame \in EvictableK
        /\ \A g \in EvictableK : KthAccess(last'.frame) <= KthAccess(g)
    ]_vars

(***************************************************************************)
(* C12: RecordAccess(f), SetEvictable(f, b) and Remove(f) fail for every   *)
(* frame id f >= num_frames, f = num_frames included, and the failing call *)
(* leaves the replacer as it was; only frame ids below num_frames are ever *)
(* tracked.                                                                *)
(***************************************************************************)
Tracked(r) ==
  {f \in Slots : r.use_count[f] > 0 \/ r.is_accessible[f]}
    \cup Range(r.history_list) \cup Range(r.cache_list)

C12_OutOfRangeFails ==
  [][ /\ \A f \in FrameArgs :
           ( /\ f >= replacer.replacer_size
             /\ \/ RecordAccessCall(f)
                \/ \E b \in BOOLEAN : SetEvictableCall(f, b)
                \/ RemoveCall(f) )
           => (last'.ret = "throw" /\ replacer' = replacer)
      /\ \A f \in Tracked(replacer') : f < replacer.replacer_size
    ]_vars

(***************************************************************************)
(* C13: after any sequence of replacer calls, Size() is the number of      *)
(* frames whose evictable flag is true and is never negative, and Evict    *)
(* returns a victim iff Size() > 0 before the call.                        *)
(***************************************************************************)
SizeIsCount(r) ==
  /\ Size(r) = Cardinality({f \in DOMAIN r.is_accessible : r.is_accessible[f]})
  /\ Size(r) >= 0

C13_SizeLaw ==
  [][ /\ SizeIsCount(replacer)
      /\ SizeIsCount(replacer')
      /\ EvictCall => ((last'.ret = "true") <=> (Size(replacer) > 0))
    ]_vars

\* Evict found no victim although frames with recorded accesses are tracked
C13_Witness ==
  /\ last.op = "Evict"
  /\ last.ret = "false"
  /\ Size(replacer) = 0
  /\ \E f \in Slots : replacer.use_count[f] > 0 /\ ~replacer.is_accessible[f]

(***************************************************************************)
(* Vocabulary of the trie properties.                                      *)
(***************************************************************************)
\* the nodes reachable from a root
RECURSIVE Reach(_, _)
Reach(h, n) ==
  IF n = NullNode THEN {}
  ELSE {n} \cup UNION {Reach(h, h[n].children[c]) : c \in DOMAIN h[n].children}

Tries == 1 .. Len(roots)

\* the trie obtained last; every trie is the last one in the state its call left
LastTrie == Len(roots)

\* what a trie answers to every Get
Answers(h, root) == [key \in TrieKeys, T \in TrieTypes |-> Get(h, root, key, T)]

\* the trie holds a value at the key, of some type
Holds(h, root, key) == \E T \in TrieTypes : Get(h, root, key, T) # Absent

(***************************************************************************)
(* C14: Put and Remove never change a trie obtained earlier: every Get on  *)
(* it answers as before, and no node reachable from an earlier root has    *)
(* its children or its value changed.                                      *)
(***************************************************************************)
C14_Persistent ==
  [][ /\ SubSeq(roots', 1, Len(roots)) = roots
      /\ \A t \in Tries :
           /\ Answers(heap', roots[t]) = Answers(heap, roots[t])
           /\ \A n \in Reach(heap, roots[t]) : heap'[n] = heap[n]
    ]_vars

\* two tries share a node and answer differently
C14_Witness ==
  \E t, u \in Tries :
    /\ t < u
    /\ Reach(heap, roots[t]) \cap Reach(heap, roots[u]) # {}
    /\ Answers(heap, roots[t]) # Answers(heap, roots[u])

(***************************************************************************)
(* C15: for any trie t0, key k and value v, with t1 = t0.Put(k, v) and     *)
(* t2 = t1.Remove(k), t0.Get(k) equals t2.Get(k).                          *)
(***************************************************************************)
\* t0.Put(k, v).Remove(k): the heap after the two calls and the root of t2
PutThenRemove(t, key, val) ==
  LET p == Put(heap, roots[t], key, val)
      d == Dfs(p.heap, p.root, key, 0)
  IN  [heap |-> d.heap, root |-> d.node]

C15_PutRemove ==
  \A key \in TrieKeys, val \in TrieValues :
    \A r \in {PutThenRemove(LastTrie, key, val)}, T \in TrieTypes :
      Get(r.heap, r.root, key, T) = Get(heap, roots[LastTrie], key, T)

(***************************************************************************)
(* C15 as the code has it: t2 holds nothing at k, whatever t0 held there,  *)
(* so t0.Get(k) equals t2.Get(k) when t0 holds no value at k.              *)
(***************************************************************************)
C15_PutRemoveAbsent ==
  \A key \in TrieKeys, val \in TrieValues :
    \A t0 \in {roots[LastTrie]}, r \in {PutThenRemove(LastTrie, key, val)} :
      /\ ~Holds(r.heap, r.root, key)
      /\ ~Holds(heap, t0, key) =>
           \A T \in TrieTypes : Get(r.heap, r.root, key, T) = Get(heap, t0, key, T)

\* t0 without a value at a key, t1 with one, and t2 after a Remove without it
\* again, t2 still holding another key
C15_Witness ==
  /\ last.op = "Remove"
  /\ \E t0, t1, t2 \in Tries, key \in TrieKeys :
       /\ t0 < t1 /\ t1 < t2 /\ t2 = Len(roots)
       /\ ~Holds(heap, roots[t0], key)
       /\ Holds(heap, roots[t1], key)
       /\ ~Holds(heap, roots[t2], key)
       /\ Answers(heap, roots[t2]) = Answers(heap, roots[t0])
       /\ roots[t2] # NullNode

(***************************************************************************)
(* C16: for any trie t, key k, value v of type A and requested type B,     *)
(* t.Put<A>(k, v).Get<B>(k) is v when A = B and absent when A # B, also    *)
(* when k held a value of another type or is a prefix of, or has as        *)
(* prefix, other stored keys.                                              *)
(***************************************************************************)
C16_PutGet ==
  \A key \in TrieKeys, val \in TrieValues :
    \A p \in {Put(heap, roots[LastTrie], key, val)}, B \in TrieTypes :
      Get(p.heap, p.root, key, B) = IF B = val.type THEN val ELSE Absent

\* a Put stored a value at a key that held a value of another type before and
\* is a prefix of another stored key
C16_Witness ==
  /\ last.op = "Put"
  /\ \E t \in Tries, key \in TrieKeys, A, B \in TrieTypes :
       /\ t < LastTrie
       /\ A # B
       /\ Get(heap, roots[t], key, A) # Absent
       /\ Get(heap, roots[LastTrie], key, B) # Absent
       /\ \E c \in Chars : Holds(heap, roots[LastTrie], Append(key, c))

(***************************************************************************)
(* C17: Put and Remove are total: on every trie reachable from the empty   *)
(* trie, the empty trie included, and for every key, they complete and     *)
(* return a trie.                                                          *)
(***************************************************************************)
C17_Total == ~Killed

(***************************************************************************)
(* C18: in every trie produced by Put and Remove from the empty trie,      *)
(* every reachable node has a child or is a value node; Remove prunes the  *)
(* terminal node when it has no children and makes it a node without value *)
(* when it has children.                                                   *)
(***************************************************************************)
NoDeadNode(h, root) ==
  \A n \in Reach(h, root) : DOMAIN h[n].children # {} \/ h[n].is_value_node

C18_NoDeadNode ==
  [][ /\ \A t \in Tries : NoDeadNode(heap, roots[t])
      /\ NoDeadNode(heap', roots'[Len(roots')])
      /\ \A t \in Tries, key \in TrieKeys :
           (TrieRemoveCall(t, key) /\ roots[t] # NullNode /\ last'.ret = "trie") =>
             LET old == GetWalk(heap, roots[t], key, 1)
                 new == IF roots'[Len(roots')] = NullNode THEN NullNode
                        ELSE GetWalk(heap', roots'[Len(roots')], key, 1)
             IN  IF old = NullNode THEN new = NullNode
                 ELSE IF DOMAIN heap[old].children = {} THEN new = NullNode
                 ELSE /\ new # NullNode
                      /\ ~heap'[new].is_value_node
                      /\ heap'[new].children = heap[old].children
    ]_vars

\* a Remove pruned the node of "a" below a root that keeps another key
C18_Witness ==
  /\ last.op = "Remove"
  /\ roots[LastTrie] # NullNode
  /\ GetWalk(heap, roots[LastTrie], <<"a">>, 1) = NullNode
  /\ \E t \in Tries : t < LastTrie /\ Holds(heap, roots[t], <<"a", "b">>)
                                   /\ Holds(heap, roots[t], <<"b">>)
                                   /\ Holds(heap, roots[LastTrie], <<"b">>)

(***************************************************************************)
(* C19: every public method of the replacer holds the latch for its whole  *)
(* body, so no method reads or writes curr_size, the use counts, the       *)
(* evictable flags or the lists while another thread is inside a replacer  *)
(* method.                                                                 *)
(***************************************************************************)
C19_LatchedBodies ==
  [][ \A t \in Threads :
        (Body(t) \/ SizeCall(t)) => \A u \in Threads \ {t} : pc[u] = Idle
    ]_vars

(***************************************************************************)
(* C20: the pool loses no update.  When every client that writes into a    *)
(* pinned page then calls UnpinPage(p, true), a successful FetchPage(p)    *)
(* returns a frame whose bytes are the latest written to p; a page that is *)
(* not resident has its latest bytes on disk, and a clean resident frame   *)
(* nobody is writing into has the bytes of the disk copy.                  *)
(***************************************************************************)
C20_NoLostUpdate ==
  [][ /\ \A p \in PageIds :
           (FetchPage(p) /\ last'.ret = "page") => pages'[last'.frame].data = latest[p]
      /\ \A p \in PageIds : ~Resident(p) => disk[p] = latest[p]
      /\ \A f \in Frames :
           (ResidentFrame(f) /\ ~pages[f].is_dirty /\ pages[f].page_id \notin owed)
             => pages[f].data = disk[pages[f].page_id]
    ]_vars

====
